---- MODULE Spec2Model ----
(***************************************************************************)
(* hydrogen-demo: the streaming request handler (app/entry.server.tsx) and *)
(* the route loaders (product, article, collection, home, policies).       *)
(*                                                                         *)
(* Spec        the request handler, NumReq requests handled concurrently   *)
(*             on one event loop, with the streaming renderer as the       *)
(*             environment.                                                *)
(* LoaderSpec  one run of one route loader, with the storefront API as the *)
(*             environment.                                                *)
(* EnvSpec     the request handler serving its first request under any     *)
(*             value of NODE_ENV.                                          *)
(* ProductSpec the Product component on a product page in the browser: the *)
(*             image fade and the add-to-cart form.                        *)
(***************************************************************************)
EXTENDS Integers, Sequences, FiniteSets, TLC

(***************************************************************************)
(* Bounds of the model.                                                    *)
(***************************************************************************)
NumReq == 2
MaxParams == 2
MaxTimelines == 2

Null == "null"

Reqs == 1..NumReq

VARIABLES
  \* ---- request handler (entry.server.tsx 7-63), one entry per request
  nodeEnv,             \* process.env.NODE_ENV
  hpc,                 \* position of handleRequest
  hreq,                \* the arguments of the call
  responseStatusCode,  \* the parameter, reassigned by onError
  responseHeaders,     \* the Headers object handed in by the framework
  csp,                 \* {nonce, header} of createContentSecurityPolicy
  renderOpts,          \* options handed to renderToReadableStream
  shell,               \* the promise of renderToReadableStream
  allReady,            \* body.allReady
  errored,             \* onError has been called
  aborted,             \* request.signal has been aborted
  response,            \* the Response returned
  \* ---- route loaders
  route,               \* which loader runs
  lpc,                 \* position of the loader
  params,              \* path parameters
  search,              \* query parameters of request.url, in order
  selectedOptions,     \* product loader: the filtered options
  paginationVariables, \* collection loader: getPaginationVariables
  issued,              \* storefront.query calls, in order
  critical,            \* data of the awaited query
  outcome,             \* how the loader ended
  deferred,            \* the promise of the query the loader did not await
  \* ---- Product component (entry.server.tsx 184-236) in the browser
  color,               \* searchParams.get('Color')
  selectedVariantImage,\* useState: the image shown
  imageLoaded,         \* useState: the image shown has loaded
  wrapperVisible,      \* autoAlpha of the image wrapper is 1
  timelines,           \* fade-out timelines still running, oldest first
  fadeIn,              \* a fade-in tween is running
  image,               \* the <Image> element of ProductImage
  fetcher,             \* state of the CartForm fetcher
  submitted            \* the lines of the last submission

hvars == <<nodeEnv, hpc, hreq, responseStatusCode, responseHeaders, csp,
           renderOpts, shell, allReady, errored, aborted, response>>
lvars == <<route, lpc, params, search, selectedOptions, paginationVariables,
           issued, critical, outcome, deferred>>
uvars == <<color, selectedVariantImage, imageLoaded, wrapperVisible, timelines,
           fadeIn, image, fetcher, submitted>>
vars == <<hvars, lvars, uvars>>

(***************************************************************************)
(* Request handler                                                         *)
(***************************************************************************)
NodeEnvs == {"development", "production"}
\* Every value of NODE_ENV, an unset one (Null) included.
AllNodeEnvs == NodeEnvs \cup {"test", Null}

LocalDirectivesDev == <<"localhost:*", "ws://localhost:*", "ws://127.0.0.1:*">>

\* entry.server.tsx 13-16
localDirectivesUnlessProduction(env) ==
  IF env # "production" THEN LocalDirectivesDev ELSE <<>>
localDirectives(env) ==
  IF env = "development" THEN LocalDirectivesDev ELSE <<>>

\* entry.server.tsx 19-26
defaultSrc(env) ==
  <<"'self'", "cdn.shopify.com", "shopify.com", "*.typekit.net", "data:">>
    \o localDirectives(env)

\* entry.server.tsx 27-34
styleSrc(env) ==
  <<"'self'", "'unsafe-inline'", "cdn.shopify.com", "*.typekit.net", "data:">>
    \o localDirectives(env)

\* The random nonce createContentSecurityPolicy draws in the call for
\* request r: no two calls draw the same one.
Nonces == {<<"nonce", r>> : r \in Reqs}
generateNonce(r) == <<"nonce", r>>

\* createContentSecurityPolicy: a fresh nonce n, and the header built from
\* the directives and that nonce.
createContentSecurityPolicy(n, env) ==
  [nonce |-> n,
   header |-> [nonce |-> n,
               defaultSrc |-> defaultSrc(env),
               styleSrc |-> styleSrc(env)]]

UserAgents == {"Googlebot", "Mozilla"}
CrawlerAgents == {"Googlebot"}

\* isbot(userAgent): a missing user-agent is no crawler.
isbot(ua) == ua \in CrawlerAgents

HeaderNames == {"Content-Type", "Content-Security-Policy", "Cache-Control"}
EmptyHeaders == [h \in HeaderNames |-> Null]
\* Headers the framework hands in: entries of an earlier stage, among them
\* another Content-Type and a policy without nonce.
StaleCsp == [nonce |-> Null, defaultSrc |-> <<>>, styleSrc |-> <<>>]
StaleHeaders ==
  [h \in HeaderNames |->
     IF h = "Content-Type" THEN "application/json"
     ELSE IF h = "Content-Security-Policy" THEN StaleCsp ELSE "no-store"]
HeadersIn == {StaleHeaders}
StatusIn == {200, 404}

\* Headers.set
HeadersSet(h, name, value) == [h EXCEPT ![name] = value]

NoRequest == [userAgent |-> Null, signal |-> Null, status |-> 0]
NoCsp == [nonce |-> Null, header |-> Null]
NoOpts == [nonce |-> Null, signal |-> Null]
NoResponse == [status |-> 0, headers |-> EmptyHeaders, body |-> Null]

\* entry.server.tsx 52: only a crawler's response waits for body.allReady
WaitsForAllReadyAlways(r) == TRUE
WaitsForAllReadyNever(r) == FALSE
WaitsForAllReady(r) == isbot(hreq[r].userAgent)

\* entry.server.tsx 44-48: onError forces the status to 500
OnErrorKeepsStatus(s) == s
OnErrorStatus(s) == 500

\* entry.server.tsx 56-57
SetHeadersNoCsp(h, header) == HeadersSet(h, "Content-Type", "text/html")
SetHeaders(h, header) ==
  HeadersSet(HeadersSet(h, "Content-Type", "text/html"),
             "Content-Security-Policy", header)

\* entry.server.tsx 42-43: the options of renderToReadableStream
RenderOptionsOtherSignal(q, c) == [nonce |-> c.nonce, signal |-> 0]
RenderOptionsOtherNonce(q, c) ==
  [nonce |-> CHOOSE n \in Nonces : n # c.nonce, signal |-> q.signal]
RenderOptions(q, c) == [nonce |-> c.nonce, signal |-> q.signal]

\* entry.server.tsx 56-62: the headers are set and the Response is built
\* from the body and the status as it is at this moment.
ReturnSharedStatus(r) ==
  LET hs == SetHeaders(responseHeaders[r], csp[r].header) IN
  /\ responseHeaders' = [responseHeaders EXCEPT ![r] = hs]
  /\ response' = [response EXCEPT ![r] =
                    [status |-> IF \E q \in Reqs : errored[q]
                                THEN OnErrorStatus(responseStatusCode[r])
                                ELSE responseStatusCode[r],
                     headers |-> hs,
                     body |-> r]]
  /\ hpc' = [hpc EXCEPT ![r] = "returned"]
Return(r) ==
  LET hs == SetHeaders(responseHeaders[r], csp[r].header) IN
  /\ responseHeaders' = [responseHeaders EXCEPT ![r] = hs]
  /\ response' = [response EXCEPT ![r] =
                    [status |-> responseStatusCode[r],
                     headers |-> hs,
                     body |-> r]]
  /\ hpc' = [hpc EXCEPT ![r] = "returned"]

\* entry.server.tsx 7-50: the call, up to the await of renderToReadableStream
Call(r) ==
  /\ hpc[r] = "idle"
  /\ \E ua \in UserAgents, st \in StatusIn, hs \in HeadersIn :
       LET c == createContentSecurityPolicy(generateNonce(r), nodeEnv)
           q == [userAgent |-> ua, signal |-> r, status |-> st] IN
       /\ hreq' = [hreq EXCEPT ![r] = q]
       /\ responseStatusCode' = [responseStatusCode EXCEPT ![r] = st]
       /\ responseHeaders' = [responseHeaders EXCEPT ![r] = hs]
       /\ csp' = [csp EXCEPT ![r] = c]
       /\ renderOpts' = [renderOpts EXCEPT ![r] = RenderOptions(q, c)]
  /\ shell' = [shell EXCEPT ![r] = "pending"]
  /\ allReady' = [allReady EXCEPT ![r] = "pending"]
  /\ hpc' = [hpc EXCEPT ![r] = "awaitRender"]
  /\ UNCHANGED <<nodeEnv, aborted, errored, response, lvars, uvars>>

\* The renderer: the shell is rendered, the promise resolves with the stream.
ShellReady(r) ==
  /\ shell[r] = "pending"
  /\ shell' = [shell EXCEPT ![r] = "ready"]
  /\ UNCHANGED <<nodeEnv, aborted, hpc, hreq, responseStatusCode,
                 responseHeaders, csp, renderOpts, allReady, errored, response,
                 lvars, uvars>>

\* The renderer: the shell fails; onError is called, the promise and
\* allReady reject.
ShellError(r) ==
  /\ shell[r] = "pending"
  /\ shell' = [shell EXCEPT ![r] = "failed"]
  /\ allReady' = [allReady EXCEPT ![r] = "rejected"]
  /\ errored' = [errored EXCEPT ![r] = TRUE]
  /\ responseStatusCode' = [responseStatusCode EXCEPT ![r] = OnErrorStatus(@)]
  /\ UNCHANGED <<nodeEnv, aborted, hpc, hreq, responseHeaders, csp, renderOpts,
                 response, lvars, uvars>>

\* The renderer: an error inside a boundary, before or after the shell;
\* onError is called and rendering goes on.
RenderError(r) ==
  /\ shell[r] \in {"pending", "ready"}
  /\ allReady[r] = "pending"
  /\ ~errored[r]
  /\ errored' = [errored EXCEPT ![r] = TRUE]
  /\ responseStatusCode' = [responseStatusCode EXCEPT ![r] = OnErrorStatus(@)]
  /\ UNCHANGED <<nodeEnv, aborted, hpc, hreq, responseHeaders, csp, renderOpts,
                 shell, allReady, response, lvars, uvars>>

\* The renderer: everything is rendered, allReady resolves.
AllReady(r) ==
  /\ shell[r] = "ready"
  /\ allReady[r] = "pending"
  /\ allReady' = [allReady EXCEPT ![r] = "resolved"]
  /\ UNCHANGED <<nodeEnv, aborted, hpc, hreq, responseStatusCode,
                 responseHeaders, csp, renderOpts, shell, errored, response,
                 lvars, uvars>>

\* The renderer: a fatal error after the shell; onError is called and
\* allReady rejects.
FatalError(r) ==
  /\ shell[r] = "ready"
  /\ allReady[r] = "pending"
  /\ allReady' = [allReady EXCEPT ![r] = "rejected"]
  /\ errored' = [errored EXCEPT ![r] = TRUE]
  /\ responseStatusCode' = [responseStatusCode EXCEPT ![r] = OnErrorStatus(@)]
  /\ UNCHANGED <<nodeEnv, aborted, hpc, hreq, responseHeaders, csp, renderOpts,
                 shell, response, lvars, uvars>>

\* entry.server.tsx 43: the renderer stops on the abort of the signal of its
\* options.
ListensTo(r) == renderOpts[r].signal = hreq[r].signal

\* The client goes away while the page is being rendered: the request's
\* signal aborts. A renderer that listens to it stops: before the shell the
\* render fails as in ShellError; after it the boundaries still pending are
\* reported to onError and left to the client, and the stream ends.
Abort(r) ==
  /\ hpc[r] # "idle"
  /\ allReady[r] = "pending"
  /\ ~aborted[r]
  /\ aborted' = [aborted EXCEPT ![r] = TRUE]
  /\ IF ListensTo(r)
     THEN /\ shell' = [shell EXCEPT ![r] =
                         IF @ = "pending" THEN "failed" ELSE @]
          /\ allReady' = [allReady EXCEPT ![r] =
                            IF shell[r] = "pending" THEN "rejected"
                            ELSE "resolved"]
          /\ errored' = [errored EXCEPT ![r] = TRUE]
          /\ responseStatusCode' =
               [responseStatusCode EXCEPT ![r] = OnErrorStatus(@)]
     ELSE UNCHANGED <<shell, allReady, errored, responseStatusCode>>
  /\ UNCHANGED <<nodeEnv, hpc, hreq, responseHeaders, csp, renderOpts,
                 response, lvars, uvars>>

\* entry.server.tsx 37, 52-62: the await of renderToReadableStream settles.
ResumeRender(r) ==
  /\ hpc[r] = "awaitRender"
  /\ \/ /\ shell[r] = "failed"
        /\ hpc' = [hpc EXCEPT ![r] = "rejected"]
        /\ UNCHANGED <<responseHeaders, response>>
     \/ /\ shell[r] = "ready"
        /\ WaitsForAllReady(r)
        /\ hpc' = [hpc EXCEPT ![r] = "awaitAllReady"]
        /\ UNCHANGED <<responseHeaders, response>>
     \/ /\ shell[r] = "ready"
        /\ ~WaitsForAllReady(r)
        /\ Return(r)
  /\ UNCHANGED <<nodeEnv, aborted, hreq, responseStatusCode, csp, renderOpts,
                 shell, allReady, errored, lvars, uvars>>

\* entry.server.tsx 53-62: the await of body.allReady settles.
ResumeAllReady(r) ==
  /\ hpc[r] = "awaitAllReady"
  /\ \/ /\ allReady[r] = "rejected"
        /\ hpc' = [hpc EXCEPT ![r] = "rejected"]
        /\ UNCHANGED <<responseHeaders, response>>
     \/ /\ allReady[r] = "resolved"
        /\ Return(r)
  /\ UNCHANGED <<nodeEnv, aborted, hreq, responseStatusCode, csp, renderOpts,
                 shell, allReady, errored, lvars, uvars>>

(***************************************************************************)
(* Route loaders                                                           *)
(***************************************************************************)
\* A nullable value: <<>> is null or undefined, <<v>> is the value v.
None == <<>>
Some(v) == <<v>>

\* Names of query parameters, as the characters startsWith reads.
N_Color == <<"C", "o", "l", "o", "r">>
N_Title == <<"T", "i", "t", "l", "e">>
N_sid == <<"_", "s", "i", "d">>
N_pos == <<"_", "p", "o", "s">>
N_psq == <<"_", "p", "s", "q">>
N_ss == <<"_", "s", "s">>
N_v == <<"_", "v">>
N_fbclid == <<"f", "b", "c", "l", "i", "d">>
N_s == <<"_", "s">>
N_variant == <<"_", "v", "a", "r", "i", "a", "n", "t">>
N_direction == <<"d", "i", "r", "e", "c", "t", "i", "o", "n">>
N_cursor == <<"c", "u", "r", "s", "o", "r">>

\* String.prototype.startsWith
startsWith(str, prefix) ==
  /\ Len(str) >= Len(prefix)
  /\ SubSeq(str, 1, Len(prefix)) = prefix

\* getSelectedProductOptions(request): one {name, value} per query
\* parameter of request.url, in the order of the URL.
getSelectedProductOptions(searchParams) ==
  [i \in 1..Len(searchParams) |->
     [name |-> searchParams[i].name, value |-> searchParams[i].value]]

\* entry.server.tsx 107-115: the predicate of the filter
KeepOptionNoPrefixV(option) ==
  /\ ~startsWith(option.name, N_sid)
  /\ ~startsWith(option.name, N_pos)
  /\ ~startsWith(option.name, N_psq)
  /\ ~startsWith(option.name, N_ss)
  /\ ~startsWith(option.name, N_fbclid)
KeepOption(option) ==
  /\ ~startsWith(option.name, N_sid)
  /\ ~startsWith(option.name, N_pos)
  /\ ~startsWith(option.name, N_psq)
  /\ ~startsWith(option.name, N_ss)
  /\ ~startsWith(option.name, N_v)
  /\ ~startsWith(option.name, N_fbclid)

\* entry.server.tsx 106-116
FilterSelectedOptions(searchParams) ==
  SelectSeq(getSelectedProductOptions(searchParams), KeepOption)

\* entry.server.tsx 118, 653, 758: a missing path parameter
MissingNever(p) == FALSE
Missing(p) == p = None

\* The products of the shop: the default-variant product, a product with
\* two colours, a product whose single variant is titled otherwise, a
\* product without variants and a product record without id.
Variant(id, opts) == [id |-> id, selectedOptions |-> opts]
OptDefaultTitle == [name |-> N_Title, value |-> "Default Title"]
OptTitleRed == [name |-> N_Title, value |-> "Red"]
OptColorRed == [name |-> N_Color, value |-> "Red"]
OptColorBlue == [name |-> N_Color, value |-> "Blue"]
OptDefaultColor == [name |-> N_Color, value |-> "Default Title"]
Catalog ==
  { [id |-> Some("p-default"),
     allVariants |-> <<Variant("v1", <<OptDefaultTitle>>)>>],
    [id |-> Some("p-colors"),
     allVariants |-> <<Variant("v1", <<OptColorBlue>>),
                       Variant("v2", <<OptColorRed>>)>>],
    [id |-> Some("p-titled"),
     allVariants |-> <<Variant("v1", <<OptTitleRed, OptDefaultColor>>),
                       Variant("v2", <<OptColorRed>>)>>],
    [id |-> Some("p-empty"), allVariants |-> <<>>],
    [id |-> None,
     allVariants |-> <<Variant("v1", <<OptDefaultTitle>>)>>] }

\* PRODUCT_FRAGMENT 588: variantBySelectedOptions, the variant whose options
\* are the selected ones, null when there is none.
OptionSet(opts) == {opts[i] : i \in 1..Len(opts)}
variantBySelectedOptions(p, selected) ==
  LET hits == {i \in 1..Len(p.allVariants) :
                 OptionSet(p.allVariants[i].selectedOptions)
                   = OptionSet(selected)} IN
  IF hits = {} THEN None
  ELSE Some(p.allVariants[CHOOSE i \in hits : \A j \in hits : i <= j])

\* PRODUCT_QUERY / PRODUCT_FRAGMENT 576-616: the product the API answers
\* with for the variables of the query; variants(first: 1).
ProductData(p, variables) ==
  [id |-> p.id,
   handle |-> variables.handle,
   selectedVariant |-> variantBySelectedOptions(p, variables.selectedOptions),
   variants |-> SubSeq(p.allVariants, 1, IF Len(p.allVariants) > 0 THEN 1 ELSE 0)]

\* entry.server.tsx 127: !product?.id
ProductNotFoundNullOnly(product) == product = None
ProductNotFound(product) == product = None \/ product[1].id = None

\* entry.server.tsx 132-137
firstVariantIsDefault(firstVariant) ==
  \E i \in 1..Len(firstVariant.selectedOptions) :
    /\ firstVariant.selectedOptions[i].name = N_Title
    /\ firstVariant.selectedOptions[i].value = "Default Title"

\* ~/utils getVariantUrl: the product's path with the given options as its
\* query parameters.
getVariantUrl(pathname, handle, options, searchParams) ==
  [path |-> <<"products", handle>>, search |-> options]

\* The outcomes of a loader.
NoOutcome == [kind |-> "none"]
ThrownResponse(status, body) ==
  [kind |-> "response", status |-> status, body |-> body]
Redirect(url, status) == [kind |-> "redirect", status |-> status, url |-> url]
ThrownError(message) == [kind |-> "error", message |-> message]
Deferred(data) == [kind |-> "defer", status |-> 200, data |-> data]
Json(data) == [kind |-> "json", status |-> 200, data |-> data]
RejectionAsNotFound == [kind |-> "response", status |-> 404, body |-> None]
Rejection == [kind |-> "rejected"]

\* entry.server.tsx 161-182
redirectToFirstVariantSelected(product, request) ==
  Redirect(getVariantUrl(request.pathname, product.handle,
                         request.selectedOptions, request.search), 302)
redirectToFirstVariant(product, request) ==
  LET firstVariant == product.variants[1] IN
  Redirect(getVariantUrl(request.pathname, product.handle,
                         firstVariant.selectedOptions, request.search), 302)

\* storefront.query(QUERY, {variables}): a call, awaited or not
Query(name, variables, awaited) ==
  [query |-> name, variables |-> variables, awaited |-> awaited]

\* The value of a storefront.query call that was not awaited: the promise of
\* that call, settled later by the storefront API.
Promise(query) == [promise |-> query]

\* entry.server.tsx 154-158: the deferred variants query and the envelope
ProductEnvelopeAwaited(product, handle) ==
  LET variants == Query("VARIANTS_QUERY", [handle |-> handle], TRUE) IN
  [outcome |-> Deferred([product |-> product, variants |-> Promise(variants)]),
   queries |-> <<variants>>]
ProductEnvelope(product, handle) ==
  LET variants == Query("VARIANTS_QUERY", [handle |-> handle], FALSE) IN
  [outcome |-> Deferred([product |-> product, variants |-> Promise(variants)]),
   queries |-> <<variants>>]

\* entry.server.tsx 127-158: the product loader once the critical query
\* has answered with `product`; the outcome and the queries issued on the
\* way, in order.
ProductAfterCriticalEager(product, request) ==
  LET variants == <<Query("VARIANTS_QUERY", [handle |-> request.handle], FALSE)>> IN
  IF ProductNotFound(product) THEN
    [outcome |-> ThrownResponse(404, None), queries |-> <<>>]
  ELSE IF product[1].variants = <<>> THEN
    [outcome |-> ThrownError("TypeError"), queries |-> <<>>]
  ELSE IF firstVariantIsDefault(product[1].variants[1]) THEN
    ProductEnvelope([product[1] EXCEPT
                       !.selectedVariant = Some(product[1].variants[1])],
                    request.handle)
  ELSE IF product[1].selectedVariant = None THEN
    [outcome |-> redirectToFirstVariant(product[1], request),
     queries |-> variants]
  ELSE ProductEnvelope(product[1], request.handle)
ProductAfterCriticalRedirectFirst(product, request) ==
  IF ProductNotFound(product) THEN
    [outcome |-> ThrownResponse(404, None), queries |-> <<>>]
  ELSE IF product[1].variants = <<>> THEN
    [outcome |-> ThrownError("TypeError"), queries |-> <<>>]
  ELSE IF product[1].selectedVariant = None THEN
    [outcome |-> redirectToFirstVariant(product[1], request),
     queries |-> <<>>]
  ELSE ProductEnvelope(product[1], request.handle)
ProductAfterCritical(product, request) ==
  IF ProductNotFound(product) THEN
    [outcome |-> ThrownResponse(404, None), queries |-> <<>>]
  ELSE IF product[1].variants = <<>> THEN
    \* firstVariant is undefined: reading its selectedOptions throws
    [outcome |-> ThrownError("TypeError"), queries |-> <<>>]
  ELSE IF firstVariantIsDefault(product[1].variants[1]) THEN
    ProductEnvelope([product[1] EXCEPT
                       !.selectedVariant = Some(product[1].variants[1])],
                    request.handle)
  ELSE IF product[1].selectedVariant = None THEN
    [outcome |-> redirectToFirstVariant(product[1], request),
     queries |-> <<>>]
  ELSE ProductEnvelope(product[1], request.handle)

\* params.handle as the query variable
Handle == IF params.handle = None THEN "undefined" ELSE params.handle[1]

\* The request as the product loader reads it.
ProductRequest ==
  [pathname |-> <<"products", Handle>>,
   handle |-> Handle,
   search |-> search,
   selectedOptions |-> selectedOptions]

\* entry.server.tsx 102-125: the product loader up to its await
ProductLoader ==
  /\ route = "product"
  /\ lpc = "start"
  /\ selectedOptions' = FilterSelectedOptions(search)
  /\ IF Missing(params.handle)
     THEN /\ outcome' = ThrownError("Expected product handle to be defined")
          /\ lpc' = "done"
          /\ UNCHANGED issued
     ELSE /\ issued' = <<Query("PRODUCT_QUERY",
                               [handle |-> Handle,
                                selectedOptions |-> selectedOptions'],
                               TRUE)>>
          /\ lpc' = "critical"
          /\ UNCHANGED outcome
  /\ UNCHANGED <<route, deferred, params, search, paginationVariables,
                 critical, hvars, uvars>>

\* entry.server.tsx 123-158: the critical query answers
ProductCritical ==
  /\ route = "product"
  /\ lpc = "critical"
  /\ \E product \in {None} \cup
                    {Some(ProductData(p, issued[1].variables)) : p \in Catalog} :
       LET res == ProductAfterCritical(product, ProductRequest) IN
       /\ critical' = [state |-> "resolved", data |-> product]
       /\ outcome' = res.outcome
       /\ issued' = issued \o res.queries
       /\ deferred' = IF res.queries = <<>> THEN "none" ELSE "pending"
  /\ lpc' = "done"
  /\ UNCHANGED <<route, params, search, selectedOptions, paginationVariables,
                 hvars, uvars>>

\* The critical query fails (transport or API error): the await throws.
CriticalRejects ==
  /\ lpc = "critical"
  /\ critical' = [state |-> "rejected", data |-> None]
  /\ outcome' = Rejection
  /\ lpc' = "done"
  /\ UNCHANGED <<route, deferred, params, search, selectedOptions,
                 paginationVariables,
                 issued, hvars, uvars>>

\* The query the loader did not await answers after the loader has returned.
DeferredResolves ==
  /\ deferred = "pending"
  /\ deferred' = "resolved"
  /\ UNCHANGED <<route, lpc, params, search, selectedOptions,
                 paginationVariables, issued, critical, outcome, hvars, uvars>>

\* The query the loader did not await fails after the loader has returned.
DeferredRejects ==
  /\ deferred = "pending"
  /\ deferred' = "rejected"
  /\ UNCHANGED <<route, lpc, params, search, selectedOptions,
                 paginationVariables, issued, critical, outcome, hvars, uvars>>

\* entry.server.tsx 650-659: the article loader up to its await
ArticleLoader ==
  /\ route = "article"
  /\ lpc = "start"
  /\ IF Missing(params.articleHandle) \/ Missing(params.blogHandle)
     THEN /\ outcome' = ThrownResponse(404, Some("Not found"))
          /\ lpc' = "done"
          /\ UNCHANGED issued
     ELSE /\ issued' = <<Query("ARTICLE_QUERY",
                               [blogHandle |-> params.blogHandle[1],
                                articleHandle |-> params.articleHandle[1]],
                               TRUE)>>
          /\ lpc' = "critical"
          /\ UNCHANGED outcome
  /\ UNCHANGED <<route, deferred, params, search, selectedOptions,
                 paginationVariables,
                 critical, hvars, uvars>>

\* ARTICLE_QUERY 702-731: no blog, a blog without the article, the article
BlogData ==
  {None, Some([articleByHandle |-> None]),
   Some([articleByHandle |-> Some("article")])}

\* entry.server.tsx 661: !blog?.articleByHandle
ArticleNotFound(blog) == blog = None \/ blog[1].articleByHandle = None

\* entry.server.tsx 657-668
ArticleCritical ==
  /\ route = "article"
  /\ lpc = "critical"
  /\ \E blog \in BlogData :
       /\ critical' = [state |-> "resolved", data |-> blog]
       /\ outcome' = IF ArticleNotFound(blog)
                     THEN ThrownResponse(404, None)
                     ELSE Json([article |-> blog[1].articleByHandle[1]])
  /\ lpc' = "done"
  /\ UNCHANGED <<route, deferred, params, search, selectedOptions,
                 paginationVariables,
                 issued, hvars, uvars>>

\* entry.server.tsx 755
pageBy == 8

\* URLSearchParams.get: the value of the first parameter of that name
SearchGet(searchParams, name) ==
  LET hits == {i \in 1..Len(searchParams) : searchParams[i].name = name} IN
  IF hits = {} THEN None
  ELSE Some(searchParams[CHOOSE i \in hits : \A j \in hits : i <= j].value)

\* getPaginationVariables(request, {pageBy}): a page of pageBy items after
\* the cursor, or before it when direction=previous.
getPaginationVariables(searchParams, n) ==
  LET cursor == SearchGet(searchParams, N_cursor) IN
  IF SearchGet(searchParams, N_direction) = Some("previous")
  THEN [first |-> None, last |-> Some(n),
        startCursor |-> cursor, endCursor |-> None]
  ELSE [first |-> Some(n), last |-> None,
        startCursor |-> None, endCursor |-> cursor]

\* entry.server.tsx 751-764: the collection loader up to its await
CollectionLoader ==
  /\ route = "collection"
  /\ lpc = "start"
  /\ paginationVariables' = Some(getPaginationVariables(search, pageBy))
  /\ IF Missing(params.handle)
     THEN /\ outcome' = Redirect("/collections", 302)
          /\ lpc' = "done"
          /\ UNCHANGED issued
     ELSE /\ issued' = <<Query("COLLECTION_QUERY",
                               [handle |-> Handle,
                                page |-> paginationVariables'[1]],
                               TRUE)>>
          /\ lpc' = "critical"
          /\ UNCHANGED outcome
  /\ UNCHANGED <<route, deferred, params, search, selectedOptions, critical,
                 hvars, uvars>>

\* COLLECTION_QUERY 946-980: no collection, or the collection with one page
\* of its products
CollectionData ==
  {None} \cup
  {Some([handle |-> Handle,
         products |-> [nodes |-> n, pageInfo |-> [hasNextPage |-> b]]]) :
     n \in {0, pageBy}, b \in BOOLEAN}

\* entry.server.tsx 762-772
CollectionCritical ==
  /\ route = "collection"
  /\ lpc = "critical"
  /\ \E collection \in CollectionData :
       /\ critical' = [state |-> "resolved", data |-> collection]
       /\ outcome' = IF collection = None
                     THEN ThrownResponse(404, Some("Collection not found"))
                     ELSE Json([collection |-> collection[1]])
  /\ lpc' = "done"
  /\ UNCHANGED <<route, deferred, params, search, selectedOptions,
                 paginationVariables,
                 issued, hvars, uvars>>

\* ($locale)._index.tsx 26-28: the home loader up to its await
HomeLoader ==
  /\ route = "home"
  /\ lpc = "start"
  /\ issued' = <<Query("FEATURED_COLLECTION_QUERY", None, TRUE)>>
  /\ lpc' = "critical"
  /\ UNCHANGED <<route, deferred, params, search, selectedOptions,
                 paginationVariables,
                 critical, outcome, hvars, uvars>>

\* FEATURED_COLLECTION_QUERY: collections.nodes, empty or one collection
CollectionsNodes == {<<>>, <<"featured">>}

\* ($locale)._index.tsx 29: collections.nodes[0]
FirstNode(nodes) == IF Len(nodes) = 0 THEN None ELSE Some(nodes[1])

\* ($locale)._index.tsx 28-32
HomeCritical ==
  /\ route = "home"
  /\ lpc = "critical"
  /\ \E nodes \in CollectionsNodes :
       /\ critical' = [state |-> "resolved", data |-> nodes]
       /\ issued' = issued \o <<Query("RECOMMENDED_PRODUCTS_QUERY", None, FALSE)>>
       /\ outcome' = Deferred([featuredCollection |-> FirstNode(nodes),
                               recommendedProducts |->
                                 Promise(Query("RECOMMENDED_PRODUCTS_QUERY",
                                               None, FALSE))])
  /\ deferred' = "pending"
  /\ lpc' = "done"
  /\ UNCHANGED <<route, params, search, selectedOptions, paginationVariables,
                 hvars, uvars>>

\* ($locale).policies._index.tsx 5: the policies loader up to its await
PoliciesLoader ==
  /\ route = "policies"
  /\ lpc = "start"
  /\ issued' = <<Query("POLICIES_QUERY", None, TRUE)>>
  /\ lpc' = "critical"
  /\ UNCHANGED <<route, deferred, params, search, selectedOptions,
                 paginationVariables,
                 critical, outcome, hvars, uvars>>

\* POLICIES_QUERY 43-61: the fields of shop, in the order of the query
PolicyFields ==
  <<"privacyPolicy", "shippingPolicy", "termsOfService", "refundPolicy",
    "subscriptionPolicy">>

\* data.shop: missing, or one value per field, each a policy or null
ShopData ==
  {None} \cup
  {Some(shop) : shop \in [1..Len(PolicyFields) -> {None, Some("policy")}]}

\* ($locale).policies._index.tsx 6: Object.values(data.shop || {})
ObjectValues(shop) == IF shop = None THEN <<>> ELSE shop[1]

\* ($locale).policies._index.tsx 5-12
PoliciesCritical ==
  /\ route = "policies"
  /\ lpc = "critical"
  /\ \E shop \in ShopData :
       LET policies == ObjectValues(shop) IN
       /\ critical' = [state |-> "resolved", data |-> shop]
       /\ outcome' = IF Len(policies) = 0
                     THEN ThrownResponse(404, Some("No policies found"))
                     ELSE Json([policies |-> policies])
  /\ lpc' = "done"
  /\ UNCHANGED <<route, deferred, params, search, selectedOptions,
                 paginationVariables,
                 issued, hvars, uvars>>

\* The requests the loaders are run on.
ParamNames ==
  {N_Color, N_Title, N_sid, N_pos, N_psq, N_ss, N_variant, N_fbclid, N_s}
ParamValues == {"Red", "Default Title"}
ProductSearches ==
  UNION {[1..n -> [name : ParamNames, value : ParamValues]] : n \in 0..MaxParams}
CollectionSearches ==
  { <<>>,
    <<[name |-> N_direction, value |-> "next"],
      [name |-> N_cursor, value |-> "c1"]>>,
    <<[name |-> N_direction, value |-> "previous"],
      [name |-> N_cursor, value |-> "c1"]>> }
Routes == {"product", "article", "collection", "home", "policies"}

NoCritical == [state |-> "none", data |-> None]

InitLoader ==
  /\ route \in Routes
  /\ lpc = "start"
  /\ \/ /\ route = "product"
        /\ params \in [handle : {None, Some("shirt")}]
        /\ search \in ProductSearches
     \/ /\ route = "collection"
        /\ params \in [handle : {None, Some("summer")}]
        /\ search \in CollectionSearches
     \/ /\ route = "article"
        /\ params \in [blogHandle : {None, Some("news")},
                       articleHandle : {None, Some("hello")}]
        /\ search = <<>>
     \/ /\ route \in {"home", "policies"}
        /\ params = [handle |-> None]
        /\ search = <<>>
  /\ selectedOptions = <<>>
  /\ paginationVariables = None
  /\ issued = <<>>
  /\ critical = NoCritical
  /\ outcome = NoOutcome
  /\ deferred = "none"

LoaderNext ==
  \/ ProductLoader
  \/ ProductCritical
  \/ ArticleLoader
  \/ ArticleCritical
  \/ CollectionLoader
  \/ CollectionCritical
  \/ HomeLoader
  \/ HomeCritical
  \/ PoliciesLoader
  \/ PoliciesCritical
  \/ CriticalRejects
  \/ DeferredResolves
  \/ DeferredRejects

(***************************************************************************)
(* Product component in the browser                                        *)
(***************************************************************************)
\* The variants of the product on the page, by the value of their Color
\* option: two that share one image, one sold out, one without image.
Colors == {"Red", "Blue", "Green", "Black"}
Img(id) == Some([id |-> id])
PageVariant(c) ==
  CASE c = "Red" ->
         [id |-> "v-red", availableForSale |-> TRUE, image |-> Img("img-1")]
    [] c = "Blue" ->
         [id |-> "v-blue", availableForSale |-> TRUE, image |-> Img("img-1")]
    [] c = "Green" ->
         [id |-> "v-green", availableForSale |-> FALSE, image |-> Img("img-2")]
    [] c = "Black" ->
         [id |-> "v-black", availableForSale |-> TRUE, image |-> None]

\* entry.server.tsx 185-186: product.selectedVariant of the loader data for
\* the current URL; the loader never returns an envelope without one.
selectedVariant == Some(PageVariant(color))

\* entry.server.tsx 194-208: the timeline of the first effect, with the image
\* its callback will set.
FadeOutTimeline(variant) == [image |-> variant.image]

\* entry.server.tsx 238-260: ProductImage renders no <Image> without an
\* image, keeps the element it has for an image of the same id (key), and
\* mounts a new one, not loaded yet, otherwise.
ProductImage(element, img) ==
  IF img = None THEN None
  ELSE IF element # None /\ element[1].id = img[1].id THEN element
  ELSE Some([id |-> img[1].id, loaded |-> FALSE])

\* The Color parameter changes to c: the first effect runs again and starts
\* another timeline; the ones still running are not reverted.
ColorChange(c) ==
  /\ c # color
  /\ Len(timelines) < MaxTimelines
  /\ color' = c
  /\ timelines' = Append(timelines, FadeOutTimeline(PageVariant(c)))
  /\ UNCHANGED <<selectedVariantImage, imageLoaded, wrapperVisible, fadeIn,
                 image, fetcher, submitted, hvars, lvars>>

\* entry.server.tsx 196-204: the oldest timeline ends: the wrapper is faded
\* out and, in the same tick, the callback sets the image and imageLoaded.
TimelineCompletes ==
  /\ timelines # <<>>
  /\ wrapperVisible' = FALSE
  /\ selectedVariantImage' = Head(timelines).image
  /\ imageLoaded' = FALSE
  /\ image' = ProductImage(image, Head(timelines).image)
  /\ timelines' = Tail(timelines)
  /\ UNCHANGED <<color, fadeIn, fetcher, submitted, hvars, lvars>>

\* entry.server.tsx 210-219, 226: the <Image> fires load; onLoad sets
\* imageLoaded, and the second effect starts the fade-in when it turned true.
ImageLoads ==
  /\ image # None
  /\ ~image[1].loaded
  /\ image' = Some([image[1] EXCEPT !.loaded = TRUE])
  /\ imageLoaded' = TRUE
  /\ fadeIn' = (fadeIn \/ ~imageLoaded)
  /\ UNCHANGED <<color, selectedVariantImage, wrapperVisible, timelines,
                 fetcher, submitted, hvars, lvars>>

\* entry.server.tsx 213-217: the fade-in tween ends.
FadeInCompletes ==
  /\ fadeIn
  /\ fadeIn' = FALSE
  /\ wrapperVisible' = TRUE
  /\ UNCHANGED <<color, selectedVariantImage, imageLoaded, timelines, image,
                 fetcher, submitted, hvars, lvars>>

\* entry.server.tsx 358: the disabled prop ProductForm passes
ProductFormDisabled(variant) ==
  variant = None \/ ~variant[1].availableForSale

\* entry.server.tsx 362-371: the lines ProductForm passes
Lines(variant) ==
  IF variant # None
  THEN <<[merchandiseId |-> variant[1].id, quantity |-> 1]>>
  ELSE <<>>

\* entry.server.tsx 526: disabled ?? fetcher.state !== 'idle'; the right
\* side counts only for a prop that is undefined (None).
AddToCartDisabled(disabled, state) ==
  IF disabled # None THEN disabled[1] ELSE state # "idle"

\* The disabled attribute of the button as rendered.
ButtonDisabled ==
  AddToCartDisabled(Some(ProductFormDisabled(selectedVariant)), fetcher)

\* entry.server.tsx 513, 524-527: a click on the enabled button submits the
\* form with the lines.
AddToCart ==
  /\ ~ButtonDisabled
  /\ fetcher' = "submitting"
  /\ submitted' = Some(Lines(selectedVariant))
  /\ UNCHANGED <<color, selectedVariantImage, imageLoaded, wrapperVisible,
                 timelines, fadeIn, image, hvars, lvars>>

\* The fetcher: the action has answered, the page data is being reloaded.
FetcherLoading ==
  /\ fetcher = "submitting"
  /\ fetcher' = "loading"
  /\ UNCHANGED <<color, selectedVariantImage, imageLoaded, wrapperVisible,
                 timelines, fadeIn, image, submitted, hvars, lvars>>

\* The fetcher: the reload is done.
FetcherIdle ==
  /\ fetcher = "loading"
  /\ fetcher' = "idle"
  /\ UNCHANGED <<color, selectedVariantImage, imageLoaded, wrapperVisible,
                 timelines, fadeIn, image, submitted, hvars, lvars>>

\* The component is not on the page.
ProductUnmounted ==
  /\ color = Null
  /\ selectedVariantImage = None
  /\ imageLoaded = FALSE
  /\ wrapperVisible = TRUE
  /\ timelines = <<>>
  /\ fadeIn = FALSE
  /\ image = None
  /\ fetcher = "idle"
  /\ submitted = None

\* entry.server.tsx 184-208: the component has mounted on a product page and
\* its first effect has started the first timeline.
ProductMounted ==
  /\ color \in Colors
  /\ selectedVariantImage = None
  /\ imageLoaded = FALSE
  /\ wrapperVisible = TRUE
  /\ timelines = <<FadeOutTimeline(PageVariant(color))>>
  /\ fadeIn = FALSE
  /\ image = None
  /\ fetcher = "idle"
  /\ submitted = None

\* No request has arrived.
HandlerIdle ==
  /\ hpc = [r \in Reqs |-> "idle"]
  /\ hreq = [r \in Reqs |-> NoRequest]
  /\ responseStatusCode = [r \in Reqs |-> 0]
  /\ responseHeaders = [r \in Reqs |-> EmptyHeaders]
  /\ csp = [r \in Reqs |-> NoCsp]
  /\ renderOpts = [r \in Reqs |-> NoOpts]
  /\ shell = [r \in Reqs |-> "none"]
  /\ allReady = [r \in Reqs |-> "none"]
  /\ errored = [r \in Reqs |-> FALSE]
  /\ aborted = [r \in Reqs |-> FALSE]
  /\ response = [r \in Reqs |-> NoResponse]

\* The handler of a process in production. Only the policy's source lists
\* depend on NODE_ENV; EnvSpec varies it.
InitHandler ==
  /\ nodeEnv = "production"
  /\ HandlerIdle

InitLoaderIdle ==
  /\ route = Null
  /\ lpc = "idle"
  /\ params = [handle |-> None]
  /\ search = <<>>
  /\ selectedOptions = <<>>
  /\ paginationVariables = None
  /\ issued = <<>>
  /\ critical = NoCritical
  /\ outcome = NoOutcome
  /\ deferred = "none"

Init == InitHandler /\ InitLoaderIdle /\ ProductUnmounted

Next ==
  \E r \in Reqs :
    \/ Call(r)
    \/ ShellReady(r)
    \/ ShellError(r)
    \/ RenderError(r)
    \/ AllReady(r)
    \/ FatalError(r)
    \/ Abort(r)
    \/ ResumeRender(r)
    \/ ResumeAllReady(r)

Spec == Init /\ [][Next]_vars

\* The handler serving its first request, in a process started with any
\* value of NODE_ENV.
EnvInit ==
  nodeEnv \in AllNodeEnvs /\ HandlerIdle /\ InitLoaderIdle /\ ProductUnmounted

EnvNext ==
  \E r \in {1} :
    \/ Call(r)
    \/ ShellReady(r)
    \/ ShellError(r)
    \/ RenderError(r)
    \/ AllReady(r)
    \/ FatalError(r)
    \/ Abort(r)
    \/ ResumeRender(r)
    \/ ResumeAllReady(r)

EnvSpec == EnvInit /\ [][EnvNext]_vars

\* One run of one loader; no request is being rendered.
LoaderInit ==
  InitLoader /\ InitHandler /\ ProductUnmounted

LoaderSpec == LoaderInit /\ [][LoaderNext]_vars

\* The Product component on a product page in the browser.
ProductInit ==
  ProductMounted /\ InitHandler /\ InitLoaderIdle

ProductNext ==
  \/ \E c \in Colors : ColorChange(c)
  \/ TimelineCompletes
  \/ ImageLoads
  \/ FadeInCompletes
  \/ AddToCart
  \/ FetcherLoading
  \/ FetcherIdle

ProductSpec == ProductInit /\ [][ProductNext]_vars

(***************************************************************************)
(* Claims about the request handler (checked under Spec)                   *)
(***************************************************************************)
Returned(r) == hpc[r] = "returned"
Rejected(r) == hpc[r] = "rejected"
Crawler(r) == isbot(hreq[r].userAgent)

\* C1: a crawler's Response is built and returned only once allReady has
\* resolved; any other request's Response is returned without the handler
\* ever waiting for allReady.
C1_CrawlerWaitsForAllReady ==
  \A r \in Reqs :
    /\ (Returned(r) /\ Crawler(r)) => allReady[r] = "resolved"
    /\ (hpc[r] # "idle" /\ ~Crawler(r)) => hpc[r] # "awaitAllReady"

\* C1 witness: a crawler got its Response after allReady resolved, and a
\* browser got its Response while allReady is still pending.
C1_Witness ==
  \E r1, r2 \in Reqs :
    /\ Returned(r1) /\ Crawler(r1) /\ allReady[r1] = "resolved"
    /\ Returned(r2) /\ ~Crawler(r2) /\ allReady[r2] = "pending"

\* C2 as stated: whenever onError was called for a request, before or after
\* handleRequest returned, the Response of that request has status 500.
C2_Original ==
  \A r \in Reqs : (Returned(r) /\ errored[r]) => response[r].status = 500

\* C2 amended: when onError was called before the Response is built, the
\* Response is built with status 500; once built, the Response keeps the
\* status it was built with, whatever onError does afterwards.
C2_StatusAtConstruction ==
  [][\A r \in Reqs :
       /\ (~Returned(r) /\ Returned(r)' /\ errored[r]) =>
            response'[r].status = 500
       /\ Returned(r) => response'[r] = response[r]]_vars

\* C2 witness: a Response built after a render error, with status 500.
C2_Witness ==
  \E r \in Reqs :
    Returned(r) /\ errored[r] /\ response[r].status = 500
      /\ hreq[r].status # 500

RenderRejects(r) ==
  shell[r] = "failed" \/ (Crawler(r) /\ allReady[r] = "rejected")

C4_ResponseHeaders ==
  \A r \in Reqs :
    Returned(r) =>
      /\ response[r].headers["Content-Type"] = "text/html"
      /\ response[r].headers["Content-Security-Policy"] = csp[r].header
      /\ csp[r].header.nonce = csp[r].nonce
      /\ renderOpts[r].nonce = csp[r].nonce

\* C4 witness: a Response whose incoming headers carried another
\* Content-Type and Content-Security-Policy.
C4_Witness ==
  \E r \in Reqs :
    /\ Returned(r)
    /\ response[r].headers["Cache-Control"] = "no-store"
    /\ response[r].headers["Content-Security-Policy"].nonce = generateNonce(r)

(***************************************************************************)
(* Claims about the loaders (checked under LoaderSpec)                     *)
(***************************************************************************)
Done == lpc = "done"
NotFound404 == outcome.kind = "response" /\ outcome.status = 404
NoDeferredQuery == \A i \in 1..Len(issued) : issued[i].awaited
CriticalResolved == critical.state = "resolved"

\* The critical query answered, and with no matching entity.
CriticalMissing ==
  /\ CriticalResolved
  /\ \/ /\ route = "product"
        /\ (critical.data = None \/ critical.data[1].id = None)
     \/ /\ route = "article"
        /\ (critical.data = None \/ critical.data[1].articleByHandle = None)
     \/ /\ route = "collection"
        /\ critical.data = None
     \/ /\ route = "policies"
        /\ critical.data = None
     \/ /\ route = "home"
        /\ Len(critical.data) = 0

\* C5 as stated: in every loader, home included, a critical query without
\* matching entity ends in a 404 Response and no deferred query is issued.
C5_Original ==
  (Done /\ CriticalMissing) => (NotFound404 /\ NoDeferredQuery)

\* C5 amended: in the product, collection, article and policies loaders a
\* critical query without matching entity ends in a 404 Response and no
\* deferred query is issued; the home loader has no not-found case: without
\* a featured collection it still issues its deferred query and returns the
\* envelope, with featuredCollection undefined.
C5_NotFoundExceptHome ==
  (Done /\ CriticalMissing) =>
    IF route = "home"
    THEN /\ outcome.kind = "defer"
         /\ outcome.data.featuredCollection = None
         /\ Len(issued) = 2 /\ ~issued[2].awaited
    ELSE NotFound404 /\ NoDeferredQuery /\ Len(issued) = 1

\* C5 witness: the product query answered with a product record without
\* id, and the loader ended in a 404.
C5_Witness ==
  /\ route = "product" /\ Done /\ CriticalMissing
  /\ critical.data # None
  /\ NotFound404

\* A required path parameter is missing.
ParamMissing ==
  \/ route = "product" /\ params.handle = None
  \/ route = "collection" /\ params.handle = None
  \/ route = "article"
       /\ (params.blogHandle = None \/ params.articleHandle = None)

\* The prefixes the claim names, and what it is to start with one.
IgnoredPrefixes ==
  { <<"_", "s", "i", "d">>, <<"_", "p", "o", "s">>, <<"_", "p", "s", "q">>,
    <<"_", "s", "s">>, <<"_", "v">>, <<"f", "b", "c", "l", "i", "d">> }
HasIgnoredPrefix(name) ==
  \E p \in IgnoredPrefixes :
    /\ Len(p) <= Len(name)
    /\ \A i \in 1..Len(p) : name[i] = p[i]
KeptPositions(searchParams) ==
  {i \in 1..Len(searchParams) : ~HasIgnoredPrefix(searchParams[i].name)}
\* sent is searchParams without the ignored options, order and content kept
IsFiltered(sent, searchParams) ==
  LET kept == KeptPositions(searchParams) IN
  /\ Len(sent) = Cardinality(kept)
  /\ \A k \in 1..Len(sent) :
       LET i == CHOOSE i \in kept : Cardinality({j \in kept : j <= i}) = k IN
       /\ sent[k].name = searchParams[i].name
       /\ sent[k].value = searchParams[i].value

\* C6 as stated: a loader whose required path parameter is missing ends in
\* a not-found result, having issued no remote query.
C6_Original ==
  (Done /\ ParamMissing) => (NotFound404 /\ issued = <<>>)

\* C6 amended: a loader whose required path parameter is missing ends at
\* its check without issuing any remote query: the article loader with a
\* 404 Response, the product loader by throwing a generic Error (after it
\* has filtered the selected options), the collection loader with a
\* redirect to /collections (after it has read the pagination variables).
C6_MissingParamNoQuery ==
  (ParamMissing /\ lpc # "start") =>
    /\ Done
    /\ issued = <<>>
    /\ ~CriticalResolved
    /\ route = "article" =>
         (NotFound404 /\ outcome.body = Some("Not found"))
    /\ route = "product" =>
         (outcome.kind = "error" /\ IsFiltered(selectedOptions, search))
    /\ route = "collection" =>
         /\ outcome.kind = "redirect" /\ outcome.url = "/collections"
         /\ outcome.status = 302
         /\ paginationVariables # None

\* C6 witness: the product loader ended without handle.
C6_Witness ==
  /\ route = "product" /\ params.handle = None /\ Done
  /\ outcome.kind = "error"
  /\ Len(search) > 0

\* C7: a run of the product loader that ends in a redirect took the
\* decision after the critical query answered, has issued nothing but that
\* awaited query, and returns no envelope.
C7_RedirectBeforeDeferred ==
  (route = "product" /\ outcome.kind = "redirect") =>
    /\ Done
    /\ CriticalResolved
    /\ Len(issued) = 1
    /\ issued[1].query = "PRODUCT_QUERY" /\ issued[1].awaited
    /\ \A i \in 1..Len(issued) : issued[i].query # "VARIANTS_QUERY"

\* C7 witness: the product loader redirected.
C7_Witness ==
  route = "product" /\ Done /\ outcome.kind = "redirect" /\ CriticalResolved

\* The product the critical query answered with exists and has a first
\* variant.
ProductExists ==
  /\ route = "product" /\ CriticalResolved
  /\ critical.data # None
  /\ critical.data[1].id # None
  /\ Len(critical.data[1].variants) > 0
FirstVariant == critical.data[1].variants[1]
FirstIsDefault ==
  \E i \in 1..Len(FirstVariant.selectedOptions) :
    FirstVariant.selectedOptions[i]
      = [name |-> <<"T", "i", "t", "l", "e">>, value |-> "Default Title"]

\* C8: when the product exists and its first variant is the default
\* variant, the loader does not redirect: it selects that first variant and
\* returns the envelope with status 200, whatever the query parameters.
C8_DefaultVariantNoRedirect ==
  (Done /\ ProductExists /\ FirstIsDefault) =>
    /\ outcome.kind = "defer"
    /\ outcome.status = 200
    /\ outcome.data.product.selectedVariant = Some(FirstVariant)
    /\ outcome.data.product.id = critical.data[1].id

\* C8 witness: a default-variant product asked for with query parameters
\* that select no variant.
C8_Witness ==
  /\ Done /\ ProductExists /\ FirstIsDefault
  /\ critical.data[1].selectedVariant = None
  /\ Len(search) = MaxParams
  /\ outcome.kind = "defer"

C10_FilteredOptionsSent ==
  (route = "product" /\ Len(issued) > 0) =>
    /\ issued[1].query = "PRODUCT_QUERY"
    /\ IsFiltered(issued[1].variables.selectedOptions, search)

\* C10 witness: a query sent for a request with an ignored parameter
\* followed by a kept one.
C10_Witness ==
  /\ route = "product" /\ Len(issued) > 0
  /\ Len(search) = 2
  /\ HasIgnoredPrefix(search[1].name)
  /\ ~HasIgnoredPrefix(search[2].name)
  /\ Len(issued[1].variables.selectedOptions) = 1

(***************************************************************************)
(* Deferred envelopes                                                      *)
(***************************************************************************)
\* The loader returns in this step, with a deferred envelope.
ReturnsEnvelope == lpc # "done" /\ lpc' = "done" /\ outcome'.kind = "defer"

\* The value of the critical key of the envelope and of its deferred key.
CriticalKey(o) ==
  IF route = "product" THEN Some(o.data.product) ELSE o.data.featuredCollection
DeferredKey(o) ==
  IF route = "product" THEN o.data.variants ELSE o.data.recommendedProducts

\* The values the critical key can hold once the critical query has answered
\* with `data`.
CriticalValues(data) ==
  IF route = "product"
  THEN IF data = None \/ data[1].variants = <<>> THEN {}
       ELSE {data, Some([data[1] EXCEPT
                           !.selectedVariant = Some(data[1].variants[1])])}
  ELSE {FirstNode(data)}

\* C11: when the home or the product loader returns a deferred envelope,
\* the critical query has resolved and the critical key holds a value of its
\* answer, and the deferred key holds the still pending promise of a query
\* that the loader issued only in the step in which the critical query
\* resolved, after it, and did not await.
C11_EnvelopeCriticalResolvedDeferredPending ==
  [][ReturnsEnvelope =>
       /\ route \in {"product", "home"}
       /\ critical.state = "none" /\ critical'.state = "resolved"
       /\ CriticalKey(outcome') \in CriticalValues(critical'.data)
       /\ Len(issued) = 1 /\ issued[1].awaited
       /\ Len(issued') = 2 /\ issued'[1] = issued[1]
       /\ ~issued'[2].awaited
       /\ DeferredKey(outcome') = Promise(issued'[2])
       /\ deferred' = "pending"]_vars
C11_Witness ==
  /\ route = "product" /\ lpc = "done" /\ outcome.kind = "defer"
  /\ critical.state = "resolved" /\ deferred = "pending"
  /\ outcome.data.variants = Promise(issued[2])

(***************************************************************************)
(* Rendering of the deferred fields                                        *)
(***************************************************************************)
\* entry.server.tsx 284-287, ($locale)._index.tsx 191: the errorElement
\* prop of the <Await> of the route's deferred field.
errorElement(r) ==
  IF r = "product"
  THEN Some("There was a problem loading product variants")
  ELSE None

\* <Suspense><Await resolve errorElement>: what the region of the deferred
\* field shows for a state of the promise. A pending promise suspends, so
\* the fallback shows; a rejected promise renders the errorElement when there
\* is one, otherwise <Await> throws the error out of the region.
Await(promise, errorEl) ==
  CASE promise = "pending" -> [region |-> "fallback", thrown |-> FALSE]
    [] promise = "resolved" -> [region |-> "children", thrown |-> FALSE]
    [] promise = "rejected" /\ errorEl # None ->
         [region |-> errorEl[1], thrown |-> FALSE]
    [] promise = "rejected" /\ errorEl = None ->
         [region |-> "none", thrown |-> TRUE]

\* entry.server.tsx 262-308, ($locale)._index.tsx 35-45: the page rendered
\* from a deferred envelope. An error thrown out of the region replaces the
\* route's component by its error boundary.
PageView ==
  LET a == Await(deferred, errorElement(route)) IN
  [status |-> outcome.status,
   region |-> a.region,
   rest |-> IF a.thrown THEN "errorBoundary" ELSE "route"]

\* C12: every deferred field's <Await> has an error view, and when the
\* deferred query has rejected the page has status 200, shows that error
\* view in the field's region and the route's own content around it.
C12_DeferredRejectionShowsErrorView ==
  (lpc = "done" /\ outcome.kind = "defer") =>
    /\ errorElement(route) # None
    /\ deferred = "rejected" =>
         /\ PageView.status = 200
         /\ PageView.region = errorElement(route)[1]
         /\ PageView.rest = "route"

(***************************************************************************)
(* Failure of the critical query                                           *)
(***************************************************************************)
\* C13: in every loader, when the awaited critical query rejects the loader
\* ends rejected with that failure: no envelope, no redirect, no 404, and
\* the critical query is the only query it issued.
C13_CriticalRejectionPropagates ==
  critical.state = "rejected" =>
    /\ lpc = "done"
    /\ outcome.kind = "rejected"
    /\ Len(issued) = 1 /\ issued[1].awaited
    /\ deferred = "none"
C13_Witness ==
  /\ route = "home" /\ critical.state = "rejected" /\ lpc = "done"
  /\ outcome.kind = "rejected" /\ Len(issued) = 1

(***************************************************************************)
(* Cancellation                                                            *)
(***************************************************************************)
\* The renderer of request r makes no step: the shell promise, allReady and
\* the calls of onError are as before.
RenderQuiet(r) ==
  /\ shell'[r] = shell[r]
  /\ allReady'[r] = allReady[r]
  /\ errored'[r] = errored[r]
  /\ responseStatusCode'[r] = responseStatusCode[r]

\* C14: every call hands the request's own signal to the renderer, and once
\* that signal has been aborted during rendering the renderer of that
\* request has ended and makes no further step.
C14_AbortStopsRender ==
  [][\A r \in Reqs :
       /\ hpc'[r] # "idle" => renderOpts'[r].signal = hreq'[r].signal
       /\ aborted'[r] => allReady'[r] # "pending"
       /\ aborted[r] => RenderQuiet(r)]_vars
C14_Witness ==
  \E r \in Reqs :
    /\ aborted[r] /\ shell[r] = "ready" /\ allReady[r] = "resolved"
    /\ hpc[r] = "returned" /\ renderOpts[r].signal = hreq[r].signal

(***************************************************************************)
(* Content security policy                                                 *)
(***************************************************************************)
\* s has the element e
Contains(s, e) == \E i \in 1..Len(s) : s[i] = e

LocalOrigins == {"localhost:*", "ws://localhost:*", "ws://127.0.0.1:*"}

\* C15: in the policy built for a request, defaultSrc and styleSrc contain
\* each of the three local origins exactly when NODE_ENV is 'development';
\* under any other NODE_ENV they are exactly the fixed production lists.
C15_LocalOriginsIffDevelopment ==
  \A r \in Reqs :
    hpc[r] # "idle" =>
      LET d == csp[r].header.defaultSrc
          s == csp[r].header.styleSrc IN
      /\ \A o \in LocalOrigins :
           /\ Contains(d, o) <=> nodeEnv = "development"
           /\ Contains(s, o) <=> nodeEnv = "development"
      /\ nodeEnv # "development" =>
           /\ d = <<"'self'", "cdn.shopify.com", "shopify.com",
                    "*.typekit.net", "data:">>
           /\ s = <<"'self'", "'unsafe-inline'", "cdn.shopify.com",
                    "*.typekit.net", "data:">>
C15_Witness ==
  \E r \in Reqs :
    /\ hpc[r] = "returned" /\ nodeEnv = "development"
    /\ Contains(response[r].headers["Content-Security-Policy"].defaultSrc,
                "ws://localhost:*")

(***************************************************************************)
(* Collection page                                                         *)
(***************************************************************************)
\* entry.server.tsx 816-837: <Pagination> renders <NextLink> only for a
\* connection that has a next page; its label is 'Loading...' while a page
\* is being fetched and 'Load more' otherwise.
NextLinkAlways(pageInfo, isLoading) ==
  Some(IF isLoading THEN "Loading..." ELSE "Load more")
NextLink(pageInfo, isLoading) ==
  IF pageInfo.hasNextPage
  THEN Some(IF isLoading THEN "Loading..." ELSE "Load more")
  ELSE None

\* entry.server.tsx 774-843: the control below the grid in the page rendered
\* from the loader's data; nothing is being fetched in that render.
CollectionView(collection) == NextLink(collection.products.pageInfo, FALSE)

\* C16: a collection request with a handle asks for the collection of that
\* handle with a page of 8 products; when the collection exists the loader
\* answers 200 with it and the page has the 'Load more' control exactly when
\* pageInfo.hasNextPage; when it does not exist the loader answers 404.
C16_CollectionPageOfEight ==
  (route = "collection" /\ lpc = "done" /\ critical.state = "resolved") =>
    LET page == issued[1].variables.page IN
    /\ Len(issued) = 1
    /\ issued[1].query = "COLLECTION_QUERY"
    /\ issued[1].variables.handle = params.handle[1]
    /\ \/ page.first = Some(8) /\ page.last = None
       \/ page.first = None /\ page.last = Some(8)
    /\ critical.data = None =>
         outcome.kind = "response" /\ outcome.status = 404
    /\ critical.data # None =>
         /\ outcome.kind = "json" /\ outcome.status = 200
         /\ outcome.data.collection = critical.data[1]
         /\ CollectionView(outcome.data.collection) = Some("Load more")
              <=> critical.data[1].products.pageInfo.hasNextPage
C16_Witness ==
  /\ route = "collection" /\ lpc = "done" /\ outcome.kind = "json"
  /\ outcome.data.collection.products.pageInfo.hasNextPage
  /\ CollectionView(outcome.data.collection) = Some("Load more")
  /\ issued[1].variables.page.first = Some(8)

(***************************************************************************)
(* Outcomes of the product loader                                          *)
(***************************************************************************)
\* C17: whenever the critical query answers with a product that has an id,
\* the product loader ends with a deferred envelope, a 302 redirect or a 404
\* response, never with an exception of its own.
C17_ProductLoaderOutcomes ==
  (/\ route = "product" /\ lpc = "done" /\ critical.state = "resolved"
   /\ critical.data # None /\ critical.data[1].id # None) =>
    \/ outcome.kind = "defer"
    \/ outcome.kind = "redirect" /\ outcome.status = 302
    \/ outcome.kind = "response" /\ outcome.status = 404

(***************************************************************************)
(* Policies                                                                *)
(***************************************************************************)
\* The shop has no policy: it is missing, or each of its fields is null.
NoPolicyAtAll ==
  \/ critical.data = None
  \/ \A i \in 1..Len(critical.data[1]) : critical.data[1][i] = None

\* C20: a successful response of the policies loader lists at least one
\* policy that is not null, and a shop without any policy is answered with
\* 404 'No policies found'.
C20_PoliciesSomeNonNull ==
  (route = "policies" /\ lpc = "done" /\ critical.state = "resolved") =>
    /\ outcome.kind = "json" =>
         \E i \in 1..Len(outcome.data.policies) :
           outcome.data.policies[i] # None
    /\ NoPolicyAtAll =>
         /\ outcome.kind = "response" /\ outcome.status = 404
         /\ outcome.body = Some("No policies found")

(***************************************************************************)
(* Product image                                                           *)
(***************************************************************************)
\* Nothing is pending on the page: no timeline, no tween, no image load.
Settled ==
  /\ timelines = <<>>
  /\ ~fadeIn
  /\ image = None \/ image[1].loaded

\* C18: after the mount and after every change of Color the wrapper is
\* faded out, the image shown becomes the selected variant's image, and the
\* wrapper becomes visible again: once nothing is pending any more, the
\* image shown is that of the selected variant and the wrapper is visible,
\* also for a variant without image or with the image already shown.
C18_WrapperVisibleAgain ==
  Settled =>
    /\ selectedVariantImage = PageVariant(color).image
    /\ wrapperVisible

(***************************************************************************)
(* Add to cart                                                             *)
(***************************************************************************)
\* C19: the add-to-cart button is disabled whenever no variant is selected,
\* the selected variant is not for sale or the fetcher is not idle; what it
\* submits is one line with the selected variant's id and quantity 1 when a
\* variant is selected, and no line otherwise.
C19_AddToCartDisabled ==
  /\ (\/ selectedVariant = None
      \/ ~selectedVariant[1].availableForSale
      \/ fetcher # "idle") => ButtonDisabled
  /\ Lines(selectedVariant) =
       IF selectedVariant = None THEN <<>>
       ELSE <<[merchandiseId |-> selectedVariant[1].id, quantity |-> 1]>>

(***************************************************************************)
(* Independence of concurrent requests                                     *)
(***************************************************************************)
\* onError is called for request q in this step.
ErrorReported(q) == ~errored[q] /\ errored'[q]

\* C21: the Response of a request is built with the status the framework
\* passed in for that request, or with 500 when onError was called for that
\* same request before; and a call of onError for one request changes
\* neither the status nor the Response of any other request.
C21_StatusPerRequest ==
  [][\A r \in Reqs :
       /\ (~Returned(r) /\ Returned(r)') =>
            response'[r].status =
              IF errored[r] THEN 500 ELSE hreq[r].status
       /\ \A q \in Reqs \ {r} :
            ErrorReported(q) =>
              /\ responseStatusCode'[r] = responseStatusCode[r]
              /\ response'[r] = response[r]
              /\ errored'[r] = errored[r]]_vars
C21_Witness ==
  \E r1, r2 \in Reqs :
    /\ r1 # r2
    /\ Returned(r1) /\ errored[r1] /\ response[r1].status = 500
    /\ Returned(r2) /\ ~errored[r2] /\ allReady[r2] = "pending"
    /\ response[r2].status = hreq[r2].status /\ hreq[r2].status = 404

====
